---- MODULE Spec2Model ----
(***************************************************************************)
(* A model of src/converter.py: revolut_to_mt940 and its helpers.          *)
(*                                                                         *)
(* Text is a sequence of one-character strings, so that strip, replace,    *)
(* upper, slicing, Decimal parsing and strptime are computed character by  *)
(* character as the Python code computes them.  Python's None is the       *)
(* one-element sequence NONE, whose element is not a single character and  *)
(* so equals no text.                                                      *)
(***************************************************************************)
EXTENDS Integers, Sequences, FiniteSets, TLC

\* ------------------------------------------------------------- bounds

\* Longest list of data rows of an input of Spec.
MaxRows == 3
\* Longest description body (before padding) of an input of SpecDesc.
MaxDescLen == 72
\* Largest integer part of a numeric string of SpecNum.
MaxIntPart == 2

\* ------------------------------------------------------------- text

NONE == <<"None">>

Digits == <<"0", "1", "2", "3", "4", "5", "6", "7", "8", "9">>

LowerLetters ==
  <<"a", "b", "c", "d", "e", "f", "g", "h", "i", "j", "k", "l", "m",
    "n", "o", "p", "q", "r", "s", "t", "u", "v", "w", "x", "y", "z">>

UpperLetters ==
  <<"A", "B", "C", "D", "E", "F", "G", "H", "I", "J", "K", "L", "M",
    "N", "O", "P", "Q", "R", "S", "T", "U", "V", "W", "X", "Y", "Z">>

\* The characters str.strip() removes, among those the inputs use.
Whitespace == {" ", "\t", "\n", "\r"}

IsDigit(c) == \E i \in 1..10 : Digits[i] = c

DigitVal(c) == (CHOOSE i \in 1..10 : Digits[i] = c) - 1

IsUpperLetter(c) == \E i \in 1..26 : UpperLetters[i] = c

\* str.upper() on one character.
UpperChar(c) ==
  IF \E i \in 1..26 : LowerLetters[i] = c
  THEN UpperLetters[CHOOSE i \in 1..26 : LowerLetters[i] = c]
  ELSE c

\* str.lower() on one character (Decimal's parser ignores case).
LowerChar(c) ==
  IF \E i \in 1..26 : UpperLetters[i] = c
  THEN LowerLetters[CHOOSE i \in 1..26 : UpperLetters[i] = c]
  ELSE c

\* str.upper()
Upper(s) == [i \in 1..Len(s) |-> UpperChar(s[i])]

Lower(s) == [i \in 1..Len(s) |-> LowerChar(s[i])]

\* s[a-1 : b] of Python, 1-based and inclusive here.
Slice(s, a, b) == IF a > b THEN <<>> ELSE SubSeq(s, a, b)

\* str.strip()
Strip(s) ==
  LET keep == {i \in 1..Len(s) : s[i] \notin Whitespace}
  IN  IF keep = {} THEN <<>>
      ELSE LET a == CHOOSE i \in keep : \A j \in keep : i <= j
               b == CHOOSE i \in keep : \A j \in keep : j <= i
           IN  SubSeq(s, a, b)

RECURSIVE Replace(_, _, _)
\* str.replace(c, r) for a one-character c and any text r.
Replace(s, c, r) ==
  IF s = <<>> THEN <<>>
  ELSE (IF Head(s) = c THEN r ELSE <<Head(s)>>) \o Replace(Tail(s), c, r)

RECURSIVE Concat(_)
\* "".join(parts)
Concat(parts) ==
  IF parts = <<>> THEN <<>> ELSE Head(parts) \o Concat(Tail(parts))

\* `needle in s` for texts.
Contains(s, needle) ==
  \E i \in 1..(Len(s) - Len(needle) + 1) :
     SubSeq(s, i, i + Len(needle) - 1) = needle

\* Python truthiness of an optional text: None and "" are false.
Falsy(v) == v = NONE \/ v = <<>>

\* `a or b`
Or(a, b) == IF Falsy(a) THEN b ELSE a

AllDigits(s) == \A i \in 1..Len(s) : IsDigit(s[i])

RECURSIVE DigitsToNat(_)
\* int(s) for a text of digits ("" is 0).
DigitsToNat(s) ==
  IF s = <<>> THEN 0
  ELSE 10 * DigitsToNat(SubSeq(s, 1, Len(s) - 1)) + DigitVal(s[Len(s)])

RECURSIVE NatToDigits(_)
\* str(n) for n >= 0.
NatToDigits(n) ==
  IF n < 10 THEN <<Digits[n + 1]>>
  ELSE NatToDigits(n \div 10) \o <<Digits[(n % 10) + 1]>>

\* "%02d" % n
Pad2(n) == IF n < 10 THEN <<"0">> \o NatToDigits(n) ELSE NatToDigits(n)

RECURSIVE Pow10(_)
Pow10(k) == IF k = 0 THEN 1 ELSE 10 * Pow10(k - 1)

\* Number of decimal digits of n >= 0.
NumDigits(n) == Len(NatToDigits(n))

\* ------------------------------------------------------------- Decimal

\* Python's decimal.Decimal: kind "fin" is (-1)^sign * coef * 10^exp; "inf" and
\* "nan" are the special values.
Dec(kind, sign, coef, exp) ==
  [kind |-> kind, sign |-> sign, coef |-> coef, exp |-> exp]

\* Decimal("0")
DecZero == Dec("fin", 0, 0, 0)

\* getcontext().prec of the default context.
DefaultPrec == 28

\* The mantissa of a numeric text, digits [. digits] with a digit somewhere.
IsMantissa(m) ==
  LET dots == {i \in 1..Len(m) : m[i] = "."}
  IN  /\ Cardinality(dots) <= 1
      /\ \A i \in 1..Len(m) : IsDigit(m[i]) \/ m[i] = "."
      /\ \E i \in 1..Len(m) : IsDigit(m[i])

\* The exponent of a numeric text, [+-] digits with a digit.
IsExponent(e) ==
  LET body == IF e # <<>> /\ e[1] \in {"+", "-"} THEN Tail(e) ELSE e
  IN  body # <<>> /\ AllDigits(body)

ExponentVal(e) ==
  IF e[1] = "-" THEN 0 - DigitsToNat(Tail(e))
  ELSE IF e[1] = "+" THEN DigitsToNat(Tail(e))
  ELSE DigitsToNat(e)

\* Position of the first c in s, Len(s) + 1 when there is none.
FirstIndex(s, c) ==
  IF \E i \in 1..Len(s) : s[i] = c
  THEN CHOOSE i \in 1..Len(s) : s[i] = c /\ \A j \in 1..(i - 1) : s[j] # c
  ELSE Len(s) + 1

\* The digits after the point of a mantissa.
FracLen(m) == IF FirstIndex(m, ".") > Len(m) THEN 0 ELSE Len(m) - FirstIndex(m, ".")

\* The finite Decimal of a mantissa and an exponent text, or a syntax error.
DecimalNumber(sign, mant, hasExp, expo) ==
  IF IsMantissa(mant) /\ (~hasExp \/ IsExponent(expo))
  THEN [ok |-> TRUE,
        d  |-> Dec("fin", sign, DigitsToNat(Replace(mant, ".", <<>>)),
                   (IF hasExp THEN ExponentVal(expo) ELSE 0) - FracLen(mant))]
  ELSE [ok |-> FALSE, d |-> DecZero]

\* The Decimal of a sign and the lower-cased text after it.
DecimalBody(sign, body, epos) ==
  IF body \in {<<"i", "n", "f">>, <<"i", "n", "f", "i", "n", "i", "t", "y">>}
  THEN [ok |-> TRUE, d |-> Dec("inf", sign, 0, 0)]
  ELSE IF body = <<"n", "a", "n">>
  THEN [ok |-> TRUE, d |-> Dec("nan", sign, 0, 0)]
  ELSE DecimalNumber(sign, Slice(body, 1, epos - 1), epos <= Len(body),
                     Slice(body, epos + 1, Len(body)))

\* The Decimal of a text already stripped of whitespace and underscores.
DecimalSigned(t) ==
  IF t # <<>> /\ t[1] \in {"+", "-"}
  THEN DecimalBody(IF t[1] = "-" THEN 1 ELSE 0, Lower(Tail(t)),
                   FirstIndex(Lower(Tail(t)), "e"))
  ELSE DecimalBody(0, Lower(t), FirstIndex(Lower(t), "e"))

\* Decimal(text): [ok |-> FALSE] stands for InvalidOperation (ConversionSyntax).
\* The constructor strips whitespace and underscores, takes an optional sign,
\* then a number with optional fraction and exponent, or Inf, Infinity or NaN
\* in any case.
DecimalOf(text) == DecimalSigned(Replace(Strip(text), "_", <<>>))

\* Decimal(text) or Decimal("0") for a text Decimal rejects.
OrZero(r) == IF r.ok THEN r.d ELSE DecZero

\* parse_decimal: None, "" and every text Decimal rejects give Decimal("0").
parse_decimal(v) ==
  IF v = NONE \/ v = <<>> THEN DecZero
  ELSE OrZero(DecimalOf(Replace(v, ",", <<".">>)))

\* amount < 0: ordering a NaN raises InvalidOperation.
DecLtZero(d) ==
  IF d.kind = "nan" THEN [exc |-> "InvalidOperation", v |-> FALSE]
  ELSE [exc |-> "", v |-> d.sign = 1 /\ (d.kind = "inf" \/ d.coef # 0)]

\* abs(amount)
DecAbs(d) == [d EXCEPT !.sign = 0]

\* Whether rounding coef / 10^shift to an integer rounds away from zero
\* under ROUND_HALF_UP.
RoundsUp_HalfUp(coef, shift) ==
  /\ shift <= NumDigits(coef)
  /\ coef % Pow10(shift) >= 5 * Pow10(shift - 1)

\* Whether rounding coef / 10^shift to an integer rounds away from zero
\* under the default context's ROUND_HALF_EVEN (shift >= 1).
RoundsUp(coef, shift) ==
  /\ shift <= NumDigits(coef)
  /\ LET q    == coef \div Pow10(shift)
         r    == coef % Pow10(shift)
         half == 5 * Pow10(shift - 1)
     IN  r > half \/ (r = half /\ q % 2 = 1)

\* The coefficient of coef * 10^-shift rounded to an integer (shift >= 1).
Rescale(coef, shift) ==
  (IF shift > NumDigits(coef) THEN 0 ELSE coef \div Pow10(shift))
  + (IF RoundsUp(coef, shift) THEN 1 ELSE 0)

\* A rounded coefficient at exponent -2, if it fits the precision.
Quantized(d, c) ==
  IF NumDigits(c) > DefaultPrec THEN [exc |-> "InvalidOperation", v |-> d]
  ELSE [exc |-> "", v |-> Dec("fin", d.sign, c, -2)]

\* Decimal.quantize(Decimal("0.01")) in the default context: the coefficient
\* at exponent -2, or InvalidOperation for an infinity and for a result of
\* more than DefaultPrec digits.  A NaN passes through.
Quantize(d) ==
  IF d.kind = "nan" THEN [exc |-> "", v |-> d]
  ELSE IF d.kind = "inf" THEN [exc |-> "InvalidOperation", v |-> d]
  ELSE IF d.coef = 0 THEN [exc |-> "", v |-> Dec("fin", d.sign, 0, -2)]
  ELSE IF NumDigits(d.coef) + d.exp + 2 > DefaultPrec
  THEN [exc |-> "InvalidOperation", v |-> d]
  ELSE IF d.exp >= -2
  THEN [exc |-> "", v |-> Dec("fin", d.sign, d.coef * Pow10(d.exp + 2), -2)]
  ELSE Quantized(d, Rescale(d.coef, (0 - 2) - d.exp))

\* f"{q:.2f}" for a quantized q: sign, integer part, ".", two digits; a NaN
\* prints as NaN.
Format2f(q) ==
  (IF q.sign = 1 THEN <<"-">> ELSE <<>>) \o
  (IF q.kind = "nan" THEN <<"N", "a", "N">>
   ELSE NatToDigits(q.coef \div 100) \o <<".">> \o Pad2(q.coef % 100))

\* Lines 10-11: print with two decimals, dot to comma.
fmt_quantized(q) ==
  IF q.exc # "" THEN [exc |-> q.exc, v |-> <<>>]
  ELSE [exc |-> "", v |-> Replace(Format2f(q.v), ".", <<",">>)]

\* _fmt_amount: quantize to 0.01, print with two decimals, dot to comma.
fmt_amount(amount) == fmt_quantized(Quantize(amount))

\* Line 15 as a plausible bug would have it: the last, shorter slice is
\* dropped.
slices_DropTail(t, chunk_len) ==
  [k \in 1..(Len(t) \div chunk_len) |->
     SubSeq(t, (k - 1) * chunk_len + 1, k * chunk_len)]

\* Line 15: [text[i:i+chunk_len] for i in range(0, len(text), chunk_len)],
\* and [] for the empty text.
slices(t, chunk_len) ==
  [k \in 1..((Len(t) + chunk_len - 1) \div chunk_len) |->
     SubSeq(t, (k - 1) * chunk_len + 1,
            IF k * chunk_len < Len(t) THEN k * chunk_len ELSE Len(t))]

\* Line 14: newlines and carriage returns to spaces, then strip.
normalize_text(text) ==
  Strip(Replace(Replace(text, "\r", <<" ">>), "\n", <<" ">>))

\* _split_text_chunks: normalize, then slices of chunk_len.
split_text_chunks(text, chunk_len) == slices(normalize_text(text), chunk_len)

\* ------------------------------------------------------------- dates

IsLeap(y) == y % 4 = 0 /\ (y % 100 # 0 \/ y % 400 = 0)

\* calendar.monthrange(y, m)[1]
DaysInMonth(y, m) ==
  IF m = 2 THEN (IF IsLeap(y) THEN 29 ELSE 28)
  ELSE IF m \in {4, 6, 9, 11} THEN 30 ELSE 31

\* Length of the text that strptime's %m takes at position p of s:
\* 1[0-2] | 0[1-9] | [1-9], or 0 for no match.
MonthLen(s, p) ==
  IF p > Len(s) THEN 0
  ELSE IF /\ p + 1 <= Len(s)
          /\ \/ s[p] = "1" /\ s[p + 1] \in {"0", "1", "2"}
             \/ s[p] = "0" /\ IsDigit(s[p + 1]) /\ s[p + 1] # "0"
  THEN 2
  ELSE IF IsDigit(s[p]) /\ s[p] # "0" THEN 1 ELSE 0

\* Length of the text that strptime's %d takes at position p of s:
\* 3[0-1] | [1-2]\d | 0[1-9] | [1-9] | " "[1-9], or 0 for no match.
DayLen(s, p) ==
  IF p > Len(s) THEN 0
  ELSE IF /\ p + 1 <= Len(s)
          /\ \/ s[p] = "3" /\ s[p + 1] \in {"0", "1"}
             \/ s[p] \in {"1", "2"} /\ IsDigit(s[p + 1])
             \/ s[p] = "0" /\ IsDigit(s[p + 1]) /\ s[p + 1] # "0"
  THEN 2
  ELSE IF IsDigit(s[p]) /\ s[p] # "0" THEN 1
  ELSE IF /\ p + 1 <= Len(s) /\ s[p] = " "
          /\ IsDigit(s[p + 1]) /\ s[p + 1] # "0"
  THEN 2
  ELSE 0

BadDate == [exc |-> "ValueError", y |-> 0, m |-> 0, d |-> 0]

\* datetime(y, m, d): ValueError for year 0 and for a day the month lacks.
MakeDate(y, m, d) ==
  IF y < 1 \/ d > DaysInMonth(y, m) THEN BadDate
  ELSE [exc |-> "", y |-> y, m |-> m, d |-> d]

\* The day of a text whose month takes ml characters and day dl: nothing may
\* follow the day.
strptime_day(s, ml, dl) ==
  IF dl = 0 \/ Len(s) # 6 + ml + dl THEN BadDate
  ELSE MakeDate(DigitsToNat(SubSeq(s, 1, 4)),
                DigitsToNat(SubSeq(s, 6, 5 + ml)),
                DigitsToNat(Strip(SubSeq(s, 7 + ml, 6 + ml + dl))))

\* The month of a text whose month takes ml characters: a dash follows it.
strptime_month(s, ml) ==
  IF ml = 0 \/ 6 + ml > Len(s) THEN BadDate
  ELSE IF s[6 + ml] # "-" THEN BadDate
  ELSE strptime_day(s, ml, DayLen(s, 7 + ml))

\* datetime.strptime(date_str, "%Y-%m-%d"): TypeError for None, ValueError
\* for a text that does not match, leaves text over or names no calendar day.
strptime(date_str) ==
  IF date_str = NONE THEN [exc |-> "TypeError", y |-> 0, m |-> 0, d |-> 0]
  ELSE IF Len(date_str) < 8 THEN BadDate
  ELSE IF ~AllDigits(SubSeq(date_str, 1, 4)) \/ date_str[5] # "-" THEN BadDate
  ELSE strptime_month(date_str, MonthLen(date_str, 6))

\* strftime("%y%m%d") of a parsed date, or its exception.
strftime_yymmdd(t) ==
  IF t.exc # "" THEN [exc |-> t.exc, v |-> <<>>]
  ELSE [exc |-> "", v |-> Pad2(t.y % 100) \o Pad2(t.m) \o Pad2(t.d)]

\* strftime("%m%d") of a parsed date, or its exception.
strftime_mmdd(t) ==
  IF t.exc # "" THEN [exc |-> t.exc, v |-> <<>>]
  ELSE [exc |-> "", v |-> Pad2(t.m) \o Pad2(t.d)]

\* The last day of the month of a parsed date, as "%y%m%d".
month_end_yymmdd(od) ==
  IF od.exc # "" THEN [exc |-> od.exc, v |-> <<>>]
  ELSE [exc |-> "",
        v   |-> Pad2(od.y % 100) \o Pad2(od.m) \o Pad2(DaysInMonth(od.y, od.m))]

\* fmt_yyMMdd: strptime, then strftime("%y%m%d").
fmt_yyMMdd(date_str) == strftime_yymmdd(strptime(date_str))

\* fmt_MMDD: strptime, then strftime("%m%d").
fmt_MMDD(date_str) == strftime_mmdd(strptime(date_str))

\* Lines 63-66: the available date, the last day of the opening month.
available_date_of(date_str) == month_end_yymmdd(strptime(date_str))

\* ------------------------------------------------------------- rows

K_DateStarted ==
  <<"D", "a", "t", "e", " ", "s", "t", "a", "r", "t", "e", "d", " ", "(",
    "U", "T", "C", ")">>

K_DateCompleted ==
  <<"D", "a", "t", "e", " ", "c", "o", "m", "p", "l", "e", "t", "e", "d",
    " ", "(", "U", "T", "C", ")">>

K_ID ==
  <<"I", "D">>

K_Type ==
  <<"T", "y", "p", "e">>

K_Description ==
  <<"D", "e", "s", "c", "r", "i", "p", "t", "i", "o", "n">>

K_Reference ==
  <<"R", "e", "f", "e", "r", "e", "n", "c", "e">>

K_Amount ==
  <<"A", "m", "o", "u", "n", "t">>

K_OrigAmount ==
  <<"O", "r", "i", "g", " ", "a", "m", "o", "u", "n", "t">>

K_PaymentCurrency ==
  <<"P", "a", "y", "m", "e", "n", "t", " ", "c", "u", "r", "r", "e", "n",
    "c", "y">>

K_Balance ==
  <<"B", "a", "l", "a", "n", "c", "e">>

K_BeneficiaryIBAN ==
  <<"B", "e", "n", "e", "f", "i", "c", "i", "a", "r", "y", " ", "I", "B",
    "A", "N">>

\* The key csv.DictReader files surplus cells under (restkey = None).
RestKey == NONE

Min(a, b) == IF a < b THEN a ELSE b

\* One row of csv.DictReader: dict(zip(fieldnames, row)); surplus cells go
\* under restkey as a list, missing cells are restval (None).
RowDict(fieldnames, row) ==
  LET lf     == Len(fieldnames)
      lr     == Len(row)
      zipped == {fieldnames[j] : j \in 1..Min(lf, lr)}
      absent == {fieldnames[j] : j \in (lr + 1)..lf}
      last(k) == CHOOSE j \in 1..Min(lf, lr) :
                   /\ fieldnames[j] = k
                   /\ \A i \in 1..Min(lf, lr) : fieldnames[i] = k => i <= j
      keys   == zipped \cup absent \cup (IF lf < lr THEN {RestKey} ELSE {})
  IN  [k \in keys |->
         IF k \in absent THEN NONE
         ELSE IF k \in zipped THEN row[last(k)]
         ELSE SubSeq(row, lf + 1, lr)]

\* list(csv.DictReader(...)) as a plausible bug would have it: the first row
\* is read as data under its own names.
DictReader_KeepHeader(content) ==
  IF content = <<>> THEN <<>>
  ELSE LET data == SelectSeq(content, LAMBDA r : r # <<>>)
       IN  [i \in 1..Len(data) |-> RowDict(content[1], data[i])]

\* list(csv.DictReader(io.StringIO(csv_content))): the first row holds the
\* field names, empty rows after it are skipped.  The text is given as the
\* rows csv.reader cuts it into, each a list of cells.
DictReader(content) ==
  IF content = <<>> THEN <<>>
  ELSE LET data == SelectSeq(Tail(content), LAMBDA r : r # <<>>)
       IN  [i \in 1..Len(data) |-> RowDict(content[1], data[i])]

\* tx.get(key)
Get(tx, key) == IF key \in DOMAIN tx THEN tx[key] ELSE NONE

\* tx.get(key, default)
GetOr(tx, key, default) == IF key \in DOMAIN tx THEN tx[key] ELSE default

\* ------------------------------------------------------------- the conversion

\* The literal texts of revolut_to_mt940.
L_20 ==
  <<":", "2", "0", ":", "M", "T", "9", "4", "0">>

L_25 ==
  <<":", "2", "5", ":", "/">>

L_28C ==
  <<":", "2", "8", "C", ":", "1">>

L_60F ==
  <<":", "6", "0", "F", ":", "C">>

L_61 ==
  <<":", "6", "1", ":">>

L_N ==
  <<"N">>

L_NONREF ==
  <<"N", "O", "N", "R", "E", "F", "/", "/">>

L_Zero ==
  <<" ", "0">>

L_86 ==
  <<":", "8", "6", ":", "0", "2", "0", "~", "0", "0">>

L_t20 ==
  <<"~", "2", "0">>

L_t32 ==
  <<"~", "3", "2">>

L_t33 ==
  <<"~", "3", "3">>

L_t38 ==
  <<"~", "3", "8">>

L_t60 ==
  <<"~", "6", "0">>

L_t63 ==
  <<"~", "6", "3">>

L_62F ==
  <<":", "6", "2", "F", ":", "C">>

L_64 ==
  <<":", "6", "4", ":", "C">>

L_End ==
  <<"-">>

EUR ==
  <<"E", "U", "R">>

FEE ==
  <<"F", "E", "E">>

Code49 ==
  <<"4", "9">>

Code119 ==
  <<"1", "1", "9">>

\* The euro sign, one character of the output.
EuroSign == <<"EURO SIGN">>

\* chunk_len of the call _split_text_chunks(description, 35).
ChunkLen == 35

VARIABLES
  csv_content,  \* the CSV text, as the rows of cells csv.reader cuts it into
  iban,         \* the account identifier passed in
  pc,           \* where the call is: start, prepare, header, loop, returned,
                \* raised
  rows,         \* list(reader)
  ctx,          \* the locals set before the loop
  lines,        \* the list of output lines; a line is the pieces of its f-string
  n_done,       \* rows the loop has handled
  exc           \* the exception raised, if any

vars == <<csv_content, iban, pc, rows, ctx, lines, n_done, exc>>

NoExc == [type |-> "", at |-> "", row |-> 0]

NoCtx ==
  [iban_norm |-> <<>>, currency |-> <<>>, opening_date |-> <<>>,
   opening_balance |-> DecZero, closing_date |-> <<>>,
   closing_balance |-> DecZero, available_date |-> <<>>]

\* One output line: the statement that appended it and the pieces of its
\* f-string in order; the line's text is their concatenation.
Line(kind, pieces) == [kind |-> kind, f |-> pieces]

LineText(l) == Concat(l.f)

\* "\n".join(lines) keeps the lines in order; the result is held as the
\* list of line texts.
Joined(ls) == [i \in 1..Len(ls) |-> LineText(ls[i])]

\* Line 33: the first row's currency, else the last row's, else "EUR";
\* stripped and upper-cased after the choice.
currency_of(rs) ==
  Upper(Strip(Or(Or(Get(rs[1], K_PaymentCurrency),
                    Get(rs[Len(rs)], K_PaymentCurrency)), EUR)))

\* reversed(rows) as a plausible bug would have it: the rows in given order.
reversed_at_Forward(rs, k) == rs[k]

\* The k-th element of reversed(rows).
reversed_at(rs, k) == rs[Len(rs) - k + 1]

\* Lines 78-81 as a plausible bug would have it: no fallback to the opening
\* row's date.
resolve_date_NoFallback(tx, first_row) ==
  Or(Get(tx, K_DateCompleted), Get(tx, K_DateStarted))

\* Lines 78-81: the row's completion date, else its start date, else (when
\* that is None or empty) the opening row's completion date.
resolve_date(tx, first_row) ==
  IF Falsy(Or(Get(tx, K_DateCompleted), Get(tx, K_DateStarted)))
  THEN first_row[K_DateCompleted]
  ELSE Or(Get(tx, K_DateCompleted), Get(tx, K_DateStarted))

\* Line 89: the amount text the row resolves to.
amount_text(tx) ==
  Or(Or(Get(tx, K_Amount), Get(tx, K_OrigAmount)), <<"0">>)

\* Line 91 as a plausible bug would have it: the sign alone decides.
direction_of_SignOnly(amount) ==
  IF amount.kind = "nan" THEN [exc |-> "InvalidOperation", v |-> <<>>]
  ELSE [exc |-> "", v |-> IF amount.sign = 1 THEN <<"D">> ELSE <<"C">>]

\* Line 91: "D" if amount < 0 else "C".
direction_of(amount) ==
  IF DecLtZero(amount).exc # ""
  THEN [exc |-> DecLtZero(amount).exc, v |-> <<>>]
  ELSE [exc |-> "", v |-> IF DecLtZero(amount).v THEN <<"D">> ELSE <<"C">>]

\* Lines 96-100: "49" for a type that holds FEE in any case, else "119".
code_num_of(tx) ==
  IF Contains(Upper(Or(Get(tx, K_Type), <<>>)), FEE) THEN Code49 ELSE Code119

\* Lines 119-128: the first chunk under ~32, the second under ~33, the rest
\* joined under ~38.
chunk_lines(desc_chunks) ==
  (IF Len(desc_chunks) >= 1
   THEN <<Line("~32", <<L_t32, desc_chunks[1]>>)>> ELSE <<>>) \o
  (IF Len(desc_chunks) >= 2
   THEN <<Line("~33", <<L_t33, desc_chunks[2]>>)>> ELSE <<>>) \o
  (IF Len(desc_chunks) > 2
   THEN <<Line("~38d",
            <<L_t38, Concat(SubSeq(desc_chunks, 3, Len(desc_chunks)))>>)>>
   ELSE <<>>)

\* Lines 117-118: the stripped description, cut into chunks of ChunkLen.
description_chunks(tx) ==
  split_text_chunks(Strip(Or(Get(tx, K_Description), <<>>)), ChunkLen)

\* Lines 112-114: the ~20 line of a reference that is not empty.
reference_lines(reference) ==
  IF reference # <<>> THEN <<Line("~20", <<L_t20, reference>>)>> ELSE <<>>

\* Lines 134-137: the ~38 line of a beneficiary that is not empty.
beneficiary_lines(ben_iban) ==
  IF ben_iban # <<>>
  THEN <<Line("~38b", <<L_t38, Replace(ben_iban, " ", <<>>)>>)>>
  ELSE <<>>

\* Lines 140-142: the two closing lines of a block.
symbol_lines(symbol) ==
  <<Line("~60", <<L_t60, symbol>>), Line("~63", <<L_t63, symbol>>)>>

\* Lines 104-109: the three opening lines of a block.
head_lines(val_date, entry_md, direction, amount_str, code_num, tx_id) ==
  <<Line("61", <<L_61, val_date, entry_md, direction, amount_str, L_N,
                 code_num, L_NONREF, tx_id>>),
    Line("code", <<code_num, L_Zero>>),
    Line("86", <<L_86, code_num>>)>>

\* The block of one row from its formatted parts: the first exception in
\* the order of the statements, else the lines.
tx_lines(tx, val_date, entry_md, direction, amount_str, symbol) ==
  IF val_date.exc # ""
  THEN [exc |-> val_date.exc, at |-> "val_date", ls |-> <<>>]
  ELSE IF direction.exc # ""
  THEN [exc |-> direction.exc, at |-> "direction", ls |-> <<>>]
  ELSE IF amount_str.exc # ""
  THEN [exc |-> amount_str.exc, at |-> "amount_str", ls |-> <<>>]
  ELSE [exc |-> "", at |-> "",
        ls  |-> head_lines(val_date.v, entry_md.v, direction.v, amount_str.v,
                           code_num_of(tx),
                           Strip(Replace(Or(Get(tx, K_ID), <<>>), "-", <<>>)))
                \o reference_lines(Strip(Or(Get(tx, K_Reference), <<>>)))
                \o chunk_lines(description_chunks(tx))
                \o beneficiary_lines(
                     Strip(Or(Get(tx, K_BeneficiaryIBAN), <<>>)))
                \o symbol_lines(symbol)]

\* Lines 77-142: the body of the loop for one row, as the lines it appends
\* or the exception it raises.
tx_block(tx, first_row, currency) ==
  tx_lines(tx,
           fmt_yyMMdd(resolve_date(tx, first_row)),
           fmt_MMDD(resolve_date(tx, first_row)),
           direction_of(parse_decimal(amount_text(tx))),
           fmt_amount(DecAbs(parse_decimal(amount_text(tx)))),
           IF currency = EUR THEN EuroSign ELSE currency)

\* The call ends with an exception: nothing is returned, the locals are gone.
Raise(type, at, row) ==
  /\ pc' = "raised"
  /\ exc' = [type |-> type, at |-> at, row |-> row]
  /\ lines' = <<>>

\* Lines 23-27: read the rows; no row is a ValueError.
Parse ==
  /\ pc = "start"
  /\ rows' = DictReader(csv_content)
  /\ IF rows' = <<>>
     THEN Raise("ValueError", "rows_empty", 0)
     ELSE pc' = "prepare" /\ UNCHANGED <<exc, lines>>
  /\ UNCHANGED <<csv_content, iban, ctx, n_done>>

\* Lines 56 and 59: fmt_yyMMdd(row["Date completed (UTC)"]), a KeyError when
\* the row has no such key.
completed_date_of(row) ==
  IF K_DateCompleted \in DOMAIN row THEN fmt_yyMMdd(row[K_DateCompleted])
  ELSE [exc |-> "KeyError", v |-> <<>>]

\* Lines 30-66 from the two formatted dates.
PrepareWith(first_row, last_row, opening_date, closing_date) ==
  IF opening_date.exc # ""
  THEN Raise(opening_date.exc, "opening_date", 0) /\ UNCHANGED ctx
  ELSE IF closing_date.exc # ""
  THEN Raise(closing_date.exc, "closing_date", 0) /\ UNCHANGED ctx
  ELSE /\ ctx' = [iban_norm       |-> Replace(iban, " ", <<>>),
                  currency        |-> currency_of(rows),
                  opening_date    |-> opening_date.v,
                  opening_balance |->
                    parse_decimal(GetOr(first_row, K_Balance, <<"0">>)),
                  closing_date    |-> closing_date.v,
                  closing_balance |->
                    parse_decimal(GetOr(last_row, K_Balance, <<"0">>)),
                  available_date  |->
                    available_date_of(first_row[K_DateCompleted]).v]
       /\ pc' = "header"
       /\ UNCHANGED <<exc, lines>>

\* Lines 30-66: the account, the currency, the opening and closing dates and
\* balances, the available date.  The opening row is the last row, the
\* closing row the first.
Prepare ==
  /\ pc = "prepare"
  /\ PrepareWith(rows[Len(rows)], rows[1],
                 completed_date_of(rows[Len(rows)]),
                 completed_date_of(rows[1]))
  /\ UNCHANGED <<csv_content, iban, rows, n_done>>

\* Lines 68-72 from the formatted opening balance.
HeaderWith(ob) ==
  IF ob.exc # "" THEN Raise(ob.exc, "opening_balance", 0)
  ELSE /\ lines' = <<Line("20", <<L_20>>),
                     Line("25", <<L_25, ctx.iban_norm>>),
                     Line("28C", <<L_28C>>),
                     Line("60F", <<L_60F, ctx.opening_date, ctx.currency,
                                   ob.v>>)>>
       /\ pc' = "loop"
       /\ UNCHANGED exc

\* Lines 68-72: the four header lines.
Header ==
  /\ pc = "header"
  /\ HeaderWith(fmt_amount(ctx.opening_balance))
  /\ UNCHANGED <<csv_content, iban, rows, ctx, n_done>>

\* One turn of the loop from the block of its row.
TxWith(b) ==
  IF b.exc # "" THEN Raise(b.exc, b.at, n_done + 1) /\ UNCHANGED n_done
  ELSE /\ lines' = lines \o b.ls
       /\ n_done' = n_done + 1
       /\ UNCHANGED <<pc, exc>>

\* Lines 76-142: one turn of the loop over reversed(rows).
Tx ==
  /\ pc = "loop"
  /\ n_done < Len(rows)
  /\ TxWith(tx_block(reversed_at(rows, n_done + 1), rows[Len(rows)],
                     ctx.currency))
  /\ UNCHANGED <<csv_content, iban, rows, ctx>>

\* Lines 145-149 from the formatted closing balance.
FooterWith(cb) ==
  IF cb.exc # "" THEN Raise(cb.exc, "closing_balance", 0)
  ELSE /\ lines' = lines \o
            <<Line("62F", <<L_62F, ctx.closing_date, ctx.currency, cb.v>>),
              Line("64", <<L_64, ctx.available_date, ctx.currency, cb.v>>),
              Line("end", <<L_End>>)>>
       /\ pc' = "returned"
       /\ UNCHANGED exc

\* Lines 145-149: the closing and available balance lines, the end marker,
\* and the return of the joined lines.
Footer ==
  /\ pc = "loop"
  /\ n_done = Len(rows)
  /\ FooterWith(fmt_amount(ctx.closing_balance))
  /\ UNCHANGED <<csv_content, iban, rows, ctx, n_done>>

Next == Parse \/ Prepare \/ Header \/ Tx \/ Footer
\* ------------------------------------------------------------- inputs

\* A data row by column name.
Row(ds, dc, id, ty, de, re, am, oa, cu, ba, bi) ==
  (K_DateStarted :> ds) @@ (K_DateCompleted :> dc) @@ (K_ID :> id) @@
  (K_Type :> ty) @@ (K_Description :> de) @@ (K_Reference :> re) @@
  (K_Amount :> am) @@ (K_OrigAmount :> oa) @@ (K_PaymentCurrency :> cu) @@
  (K_Balance :> ba) @@ (K_BeneficiaryIBAN :> bi)

\* The columns in the order of the export, and in another order without the
\* two optional columns.
Header1 ==
  <<K_DateStarted, K_DateCompleted, K_ID, K_Type, K_Description, K_Reference,
    K_Amount, K_OrigAmount, K_PaymentCurrency, K_Balance, K_BeneficiaryIBAN>>

Header2 ==
  <<K_Balance, K_PaymentCurrency, K_Amount, K_Type, K_ID, K_DateCompleted,
    K_Description, K_Reference, K_BeneficiaryIBAN>>

\* The cells of a data row under a header.
Cells(header, r) == [j \in 1..Len(header) |-> r[header[j]]]

\* Sample row: the most recent row of the spec's scenario.
RowNewest ==
  Row(<<"2", "0", "2", "4", "-", "0", "1", "-", "1", "9">>,
      <<"2", "0", "2", "4", "-", "0", "1", "-", "2", "0">>,
      <<"a", "b", "c", "-", "1", "2", "3">>,
      <<"C", "A", "R", "D", "_", "P", "A", "Y", "M", "E", "N", "T">>,
      <<"C", "o", "f", "f", "e", "e">>,
      <<"r", "e", "f", "1">>,
      <<"-", "1", "2", ".", "5", "0">>,
      <<>>,
      <<"E", "U", "R">>,
      <<"9", "8", "7", ".", "5", "0">>,
      <<>>)

\* Sample row: a transfer with a beneficiary and a comma balance.
RowMiddle ==
  Row(<<"2", "0", "2", "4", "-", "0", "1", "-", "1", "0">>,
      <<"2", "0", "2", "4", "-", "0", "1", "-", "1", "0">>,
      <<"d", "-", "2">>,
      <<"T", "R", "A", "N", "S", "F", "E", "R">>,
      <<>>,
      <<>>,
      <<"1", "0", "0">>,
      <<>>,
      <<"E", "U", "R">>,
      <<"1", "0", "0", "0", ",", "0", "0">>,
      <<"P", "L", " ", "1", "2", " ", "3", "4">>)

\* Sample row: a fee with an 80-character description.
RowOldest ==
  Row(<<"2", "0", "2", "4", "-", "0", "1", "-", "0", "1">>,
      <<"2", "0", "2", "4", "-", "0", "1", "-", "0", "1">>,
      <<"e", "3">>,
      <<"c", "a", "r", "d", "_", "f", "e", "e">>,
      <<"P", "a", "y", "m", "e", "n", "t", " ", "f", "o", "r", " ", "i", "n",
        "v", "o", "i", "c", "e", " ", "2", "0", "2", "4", "/", "0",
        "0", "1", "\n", "t", "o", " ", "A", "C", "M", "E", " ", "S",
        "p", ".", " ", "z", " ", "o", ".", "o", ".", "\r", "\n", "W",
        "a", "r", "s", "a", "w", ",", " ", "t", "h", "a", "n", "k",
        " ", "y", "o", "u", " ", "f", "o", "r", " ", "y", "o", "u",
        "r", " ", "o", "r", "d", "e">>,
      <<" ", "r", " ">>,
      <<"0", ".", "1", "2", "5">>,
      <<>>,
      <<"E", "U", "R">>,
      <<"9", "0", "0">>,
      <<>>)

\* Sample row: a negative balance.
RowNegBalance ==
  Row(<<"2", "0", "2", "4", "-", "0", "2", "-", "2", "8">>,
      <<"2", "0", "2", "4", "-", "0", "2", "-", "2", "9">>,
      <<"n", "-", "4">>,
      <<"T", "O", "P", "U", "P">>,
      <<"T", "o", "p", " ", "u", "p">>,
      <<>>,
      <<"+", "7">>,
      <<>>,
      <<"E", "U", "R">>,
      <<"-", "1", "2", ".", "5", "0">>,
      <<>>)

\* Sample row: a currency of spaces.
RowBlankCurrency ==
  Row(<<"2", "0", "2", "3", "-", "1", "2", "-", "3", "0">>,
      <<"2", "0", "2", "3", "-", "1", "2", "-", "3", "1">>,
      <<"w", "5">>,
      <<"E", "X", "C", "H", "A", "N", "G", "E">>,
      <<"x">>,
      <<>>,
      <<"1">>,
      <<>>,
      <<" ", " ">>,
      <<"5">>,
      <<>>)

\* Sample row: a two-letter lower-case currency.
RowShortCurrency ==
  Row(<<"2", "0", "2", "4", "-", "0", "3", "-", "0", "1">>,
      <<"2", "0", "2", "4", "-", "3", "-", "1">>,
      <<"s", "6">>,
      <<"F", "E", "E">>,
      <<>>,
      <<>>,
      <<"-", "0", ",", "5">>,
      <<>>,
      <<"e", "u">>,
      <<"6">>,
      <<>>)

\* Sample row: no date and no amount, an original amount.
RowNoDates ==
  Row(<<>>,
      <<>>,
      <<"u", "7">>,
      <<"T", "R", "A", "N", "S", "F", "E", "R">>,
      <<>>,
      <<>>,
      <<>>,
      <<"3", ",", "5">>,
      <<"E", "U", "R">>,
      <<"7">>,
      <<>>)

\* Sample row: a completion date that is no calendar day.
RowBadDate ==
  Row(<<"2", "0", "2", "4", "-", "0", "1", "-", "0", "5">>,
      <<"2", "0", "2", "4", "-", "0", "2", "-", "3", "0">>,
      <<"b", "8">>,
      <<"T", "R", "A", "N", "S", "F", "E", "R">>,
      <<>>,
      <<>>,
      <<"8">>,
      <<>>,
      <<"E", "U", "R">>,
      <<"8">>,
      <<>>)

\* Sample row: a start date only, an unparsable amount, no balance.
RowStartDate ==
  Row(<<"2", "0", "2", "4", "-", "1", "-", "5">>,
      <<>>,
      <<"t", "9">>,
      <<"T", "R", "A", "N", "S", "F", "E", "R">>,
      <<>>,
      <<>>,
      <<"a", "b", "c">>,
      <<>>,
      <<"E", "U", "R">>,
      <<>>,
      <<>>)

\* Sample row: an amount Decimal reads as infinity.
RowInfinity ==
  Row(<<"2", "0", "2", "4", "-", "0", "1", "-", "0", "7">>,
      <<"2", "0", "2", "4", "-", "0", "1", "-", "0", "7">>,
      <<"i", "1", "0">>,
      <<"T", "R", "A", "N", "S", "F", "E", "R">>,
      <<>>,
      <<>>,
      <<"I", "n", "f", "i", "n", "i", "t", "y">>,
      <<>>,
      <<"E", "U", "R">>,
      <<"1", "0">>,
      <<>>)

\* Sample row: a row for the surplus cell.
RowSurplus ==
  Row(<<"2", "0", "2", "4", "-", "0", "1", "-", "0", "8">>,
      <<"2", "0", "2", "4", "-", "0", "1", "-", "0", "8">>,
      <<"l", "1", "1">>,
      <<"T", "R", "A", "N", "S", "F", "E", "R">>,
      <<>>,
      <<>>,
      <<"1", "1">>,
      <<>>,
      <<"E", "U", "R">>,
      <<"1", "1">>,
      <<>>)

\* Sample row: a row for the missing trailing cells.
RowCut ==
  Row(<<"2", "0", "2", "4", "-", "0", "1", "-", "0", "9">>,
      <<"2", "0", "2", "4", "-", "0", "1", "-", "0", "9">>,
      <<"c", "1", "2">>,
      <<"T", "R", "A", "N", "S", "F", "E", "R">>,
      <<>>,
      <<>>,
      <<"1", "2">>,
      <<>>,
      <<"E", "U", "R">>,
      <<"1", "2">>,
      <<>>)

SampleRows ==
  <<RowNewest, RowMiddle, RowOldest, RowNegBalance, RowBlankCurrency,
    RowShortCurrency, RowNoDates, RowBadDate, RowStartDate, RowInfinity,
    RowSurplus, RowCut>>

\* The cells of sample row i under a header: RowSurplus gets one cell more
\* than the header has names, RowCut loses its last three cells.
SampleCells(header, i) ==
  LET c == Cells(header, SampleRows[i])
  IN  IF SampleRows[i] = RowSurplus THEN Append(c, <<"x">>)
      ELSE IF SampleRows[i] = RowCut THEN SubSeq(c, 1, Len(c) - 3)
      ELSE c

\* All sequences of length 1..n over 1..m.
RECURSIVE IndexSeqs(_, _)
IndexSeqs(n, m) ==
  IF n = 0 THEN {}
  ELSE {<<i>> : i \in 1..m} \cup
       {Append(s, i) : s \in IndexSeqs(n - 1, m), i \in 1..m}

\* CSV texts: the export's header and 1..MaxRows sample rows, the other
\* header and one sample row, and the texts with no data row or with empty
\* lines.
Documents ==
  {<<Header1>> \o [k \in 1..Len(s) |-> SampleCells(Header1, s[k])] :
     s \in IndexSeqs(MaxRows, Len(SampleRows))}
  \cup {<<Header2, SampleCells(Header2, i)>> : i \in 1..Len(SampleRows)}
  \cup {<<>>, <<Header1>>, <<Header2>>, <<Header1, <<>>>>,
        <<Header1, <<>>, SampleCells(Header1, 1), <<>>>>,
        <<<<>>, Header1, SampleCells(Header1, 1)>>}

IBANs == {<<"P", "L", " ", "1", "2", " ", "3", "4">>, <<"D", "E", "0", "0">>}

\* The i-th character of a generated description: letters, with a space, a
\* newline or a carriage return at some places.
BodyChar(i) ==
  IF i % 9 = 0 THEN "\n"
  ELSE IF i % 14 = 0 THEN "\r"
  ELSE IF i % 5 = 0 THEN " "
  ELSE LowerLetters[(i % 26) + 1]

Pads == {<<>>, <<" ">>, <<"\n">>, <<"\r", "\n">>}

\* Descriptions of 0..MaxDescLen generated characters between two pads.
Descriptions ==
  {lp \o [i \in 1..n |-> BodyChar(i)] \o rp :
     n \in 0..MaxDescLen, lp \in Pads, rp \in Pads}

\* CSV texts of one row, RowNewest with a generated description.
DescDocuments ==
  {<<Header1, Cells(Header1, [RowNewest EXCEPT ![K_Description] = d])>> :
     d \in Descriptions}

\* Fractions of up to three digits.
FracTexts ==
  {<<>>} \cup {<<a>> : a \in {"0", "1", "9"}}
  \cup {<<a, b>> : a \in {"0", "1", "9"}, b \in {Digits[i] : i \in 1..10}}
  \cup {<<a, b, c>> : a \in {"0", "1", "9"}, b \in {Digits[i] : i \in 1..10},
                      c \in {"0", "4", "5", "6"}}

\* Numeric texts: a sign, an integer part of 0..MaxIntPart, a dot, a comma or
\* nothing, a fraction; and texts Decimal reads otherwise or rejects.
NumTexts ==
  {sg \o NatToDigits(n) \o sep \o fr :
     sg \in {<<>>, <<"-">>, <<"+">>}, n \in 0..MaxIntPart,
     sep \in {<<>>, <<".">>, <<",">>}, fr \in FracTexts}
  \cup {<<>>, <<"a", "b", "c">>, <<"I", "n", "f", "i", "n", "i", "t", "y">>,
        <<"-", "i", "n", "f">>, <<"N", "a", "N">>, <<"1", "e", "3", "0">>,
        <<"1", "e", "3">>, <<"-", "5", "E", "-", "3">>, <<"1", "_", "0">>,
        <<" ", "5", " ">>, <<"1", ",", "2", ",", "3">>, <<".">>, <<".", "5">>,
        <<"e", "5">>, <<"1", "2", ",", "5", " ", "E", "U", "R">>}

\* CSV texts of one row, RowNewest with a numeric text as amount and balance.
NumDocuments ==
  {<<Header1, Cells(Header1, [RowNewest EXCEPT ![K_Amount] = s,
                                               ![K_Balance] = s])>> :
     s \in NumTexts}

InitWith(docs, ibans) ==
  /\ csv_content \in docs
  /\ iban \in ibans
  /\ pc = "start"
  /\ rows = <<>>
  /\ ctx = NoCtx
  /\ lines = <<>>
  /\ n_done = 0
  /\ exc = NoExc

\* The conversion of the sample documents.
Init == InitWith(Documents, IBANs)

Spec == Init /\ [][Next]_vars

\* The conversion of one row with a generated description.
InitDesc == InitWith(DescDocuments, {<<"D", "E", "0", "0">>})

SpecDesc == InitDesc /\ [][Next]_vars

\* The conversion of one row with a generated amount and balance.
InitNum == InitWith(NumDocuments, {<<"D", "E", "0", "0">>})

SpecNum == InitNum /\ [][Next]_vars

\* ------------------------------------------------------------- claims

\* The places of the transaction lines among the output lines.
Idx61 == {i \in 1..Len(lines) : lines[i].kind = "61"}

\* The transaction line of the k-th block.
BlockLine(k) ==
  lines[CHOOSE i \in Idx61 : Cardinality({j \in Idx61 : j <= i}) = k]

\* The record the k-th block is to come from: the (n-k+1)-th of the input.
RowOfBlock(k) == rows[Len(rows) - k + 1]

\* The amount text a record resolves to, read off the record.
ResolvedAmount(tx) ==
  parse_decimal(Or(Or(Get(tx, K_Amount), Get(tx, K_OrigAmount)), <<"0">>))

\* Digits, a comma, exactly two digits; no sign.
IsAmountText(s) ==
  /\ Len(s) >= 4
  /\ s[Len(s) - 2] = ","
  /\ \A i \in 1..Len(s) : i # Len(s) - 2 => IsDigit(s[i])

\* The hundredths an amount text denotes, its sign left aside.
CentsOfText(s) ==
  DigitsToNat(SelectSeq(s, LAMBDA c : IsDigit(c)))

\* The thousandths of a finite Decimal with at most three fractional digits.
Thousandths(d) == d.coef * Pow10(d.exp + 3)

HalfEvenCents(d) ==
  (Thousandths(d) \div 10)
  + (IF \/ Thousandths(d) % 10 > 5
        \/ Thousandths(d) % 10 = 5 /\ (Thousandths(d) \div 10) % 2 = 1
     THEN 1 ELSE 0)

HalfUpCents(d) ==
  (Thousandths(d) \div 10) + (IF Thousandths(d) % 10 >= 5 THEN 1 ELSE 0)

\* The opening and closing balance as the records hold them.
OpeningBalance == parse_decimal(GetOr(rows[Len(rows)], K_Balance, <<"0">>))

ClosingBalance == parse_decimal(GetOr(rows[1], K_Balance, <<"0">>))

HasThreeDigits(d) == d.kind = "fin" /\ d.exp \in -3..0

\* C1: a returned statement of n records has the four header lines first,
\* the three footer lines last and exactly n transaction lines between them;
\* the k-th block carries the identifier, date and amount of record n-k+1;
\* the opening-balance line carries the date and balance of the last record
\* and the closing-balance line those of the first.
C1_ReverseOrder ==
  pc = "returned" =>
    LET n == Len(rows)
        m == Len(lines)
    IN  /\ Cardinality(Idx61) = n
        /\ <<lines[1].kind, lines[2].kind, lines[3].kind, lines[4].kind>>
             = <<"20", "25", "28C", "60F">>
        /\ <<lines[m - 2].kind, lines[m - 1].kind, lines[m].kind>>
             = <<"62F", "64", "end">>
        /\ \A i \in Idx61 : 4 < i /\ i < m - 2
        /\ \A k \in 1..n :
             /\ BlockLine(k).f[9]
                  = Strip(Replace(Or(Get(RowOfBlock(k), K_ID), <<>>), "-", <<>>))
             /\ BlockLine(k).f[5]
                  = fmt_amount(DecAbs(ResolvedAmount(RowOfBlock(k)))).v
             /\ BlockLine(k).f[2]
                  = fmt_yyMMdd(IF Falsy(Or(Get(RowOfBlock(k), K_DateCompleted),
                                           Get(RowOfBlock(k), K_DateStarted)))
                               THEN rows[n][K_DateCompleted]
                               ELSE Or(Get(RowOfBlock(k), K_DateCompleted),
                                       Get(RowOfBlock(k), K_DateStarted))).v
        /\ lines[4].f[2] = fmt_yyMMdd(rows[n][K_DateCompleted]).v
        /\ lines[4].f[4] = fmt_amount(OpeningBalance).v
        /\ lines[m - 2].f[2] = fmt_yyMMdd(rows[1][K_DateCompleted]).v
        /\ lines[m - 2].f[4] = fmt_amount(ClosingBalance).v

\* C1's case: a statement returned for three records with three identifiers.
C1_Witness ==
  /\ pc = "returned"
  /\ Len(rows) = 3
  /\ Cardinality({Get(rows[i], K_ID) : i \in 1..3}) = 3
  /\ OpeningBalance # ClosingBalance

\* A text with no data row: empty, or a header followed by empty lines only.
NoDataRow == \A i \in 2..Len(csv_content) : csv_content[i] = <<>>

\* C2: for the empty text and for a text of a header row only, whatever the
\* account identifier, the call raises the error of line 27 and returns no
\* line.
C2_EmptyInputRejected ==
  NoDataRow =>
    /\ pc \in {"start", "raised"}
    /\ lines = <<>>
    /\ pc = "raised" =>
         exc = [type |-> "ValueError", at |-> "rows_empty", row |-> 0]

\* C2's case: a header-only text has been rejected.
C2_Witness == Len(csv_content) = 1 /\ pc = "raised"

\* C3: every amount of a transaction, opening-balance, closing-balance and
\* available-balance line is digits, a comma and two digits, with no sign.
C3_AmountsUnsigned ==
  \A i \in 1..Len(lines) :
    /\ lines[i].kind \in {"60F", "62F", "64"} => IsAmountText(lines[i].f[4])
    /\ lines[i].kind = "61" => IsAmountText(lines[i].f[5])

\* C4 as stated: the rendered opening balance is the balance rounded half up
\* to two fractional digits.
C4_HalfUp ==
  \A i \in 1..Len(lines) :
    lines[i].kind = "60F" /\ HasThreeDigits(OpeningBalance) =>
      CentsOfText(lines[i].f[4]) = HalfUpCents(OpeningBalance)

\* C4, amended: the rendered opening balance and the rendered amount of a
\* transaction are the value rounded half to even to two fractional digits:
\* a third digit of exactly 5 rounds to the even second digit.
C4_HalfEven ==
  /\ \A i \in 1..Len(lines) :
       lines[i].kind = "60F" /\ HasThreeDigits(OpeningBalance) =>
         CentsOfText(lines[i].f[4]) = HalfEvenCents(OpeningBalance)
  /\ \A k \in 1..Cardinality(Idx61) :
       HasThreeDigits(ResolvedAmount(RowOfBlock(k))) =>
         CentsOfText(BlockLine(k).f[5])
           = HalfEvenCents(ResolvedAmount(RowOfBlock(k)))

\* C4's case: a balance with a third fractional digit of 5 after an even
\* second digit has been rendered.
C4_Witness ==
  /\ pc = "returned"
  /\ HasThreeDigits(OpeningBalance)
  /\ Thousandths(OpeningBalance) % 10 = 5
  /\ (Thousandths(OpeningBalance) \div 10) % 2 = 0

\* C5: the currency of the opening-balance, closing-balance and
\* available-balance lines is three upper-case letters.
C5_CurrencyThreeUpper ==
  \A i \in 1..Len(lines) :
    lines[i].kind \in {"60F", "62F", "64"} =>
      /\ Len(lines[i].f[3]) = 3
      /\ \A j \in 1..Len(lines[i].f[3]) : IsUpperLetter(lines[i].f[3][j])

\* C6: the direction letter of a transaction line is D exactly when the
\* record's resolved amount is below zero, else C, and its amount is
\* unsigned.
C6_DirectionLaw ==
  \A k \in 1..Cardinality(Idx61) :
    LET d == ResolvedAmount(RowOfBlock(k))
    IN  /\ BlockLine(k).f[4] \in {<<"D">>, <<"C">>}
        /\ BlockLine(k).f[4] = <<"D">> <=>
             d.sign = 1 /\ (d.kind = "inf" \/ d.coef > 0)
        /\ IsAmountText(BlockLine(k).f[5])

\* C6's case: a debit line has been written for an amount below zero.
C6_Witness ==
  /\ pc = "returned"
  /\ ResolvedAmount(rows[1]).sign = 1
  /\ ResolvedAmount(rows[1]).coef > 0
  /\ BlockLine(1).f[4] = <<"D">>

\* The description of the one record, and its normal form: newlines and
\* carriage returns to spaces, then trimmed.
TheDescription == Or(Get(rows[1], K_Description), <<>>)

NormalForm(s) ==
  Strip([i \in 1..Len(s) |-> IF s[i] \in {"\n", "\r"} THEN " " ELSE s[i]])

\* The payload of the description line of a kind, empty when there is none.
Payload(kind) ==
  IF \E i \in 1..Len(lines) : lines[i].kind = kind
  THEN lines[CHOOSE i \in 1..Len(lines) : lines[i].kind = kind].f[2]
  ELSE <<>>

NoOwnDate(tx) ==
  /\ Get(tx, K_DateCompleted) \in {NONE, <<>>}
  /\ Get(tx, K_DateStarted) \in {NONE, <<>>}

\* C8 as stated: once the opening date is valid, no record's date makes the
\* conversion fail in the loop.
C8_NoRowDateFailure == ~(pc = "raised" /\ exc.at = "val_date")

\* C8, amended: a record with neither date gets the opening date and never
\* fails on its date; a failure on a record's date comes from a date text
\* the record holds.
C8_MissingDateFallsBack ==
  /\ pc = "raised" /\ exc.at = "val_date" => ~NoOwnDate(RowOfBlock(exc.row))
  /\ \A k \in 1..Cardinality(Idx61) :
       NoOwnDate(RowOfBlock(k)) =>
         /\ BlockLine(k).f[2] = ctx.opening_date
         /\ BlockLine(k).f[3] = SubSeq(ctx.opening_date, 3, 6)

\* C8's case: a statement returned with a middle record that has no date.
C8_Witness ==
  /\ pc = "returned"
  /\ Len(rows) = 3
  /\ NoOwnDate(rows[2])

\* C9: no numeric field makes the conversion raise.
C9_NumericNeverRaises ==
  pc = "raised" =>
    /\ exc.type # "InvalidOperation"
    /\ exc.at \notin {"opening_balance", "direction", "amount_str",
                      "closing_balance"}

\* A data row with more cells than the header has names.
HasSurplusRow ==
  \E i \in 2..Len(csv_content) : Len(csv_content[i]) > Len(csv_content[1])

\* C10: a text with a data row of more cells than the header is rejected, no
\* statement is returned.
C10_SurplusRowRejected == HasSurplusRow => pc # "returned"

====
